---------------------------- MODULE Spec2Model ----------------------------
(***************************************************************************)
(* Labeled HKDF key derivation (src/src/kdf.rs) and the export-only AEAD   *)
(* (src/src/aead/export_only.rs) of rust-hpke.                             *)
(*                                                                         *)
(* Byte strings are sequences of integers in 0..255.  The hash function    *)
(* itself is not implemented by this repository; HMAC values are kept as   *)
(* terms [alg, key, msg], so two HMAC values are equal exactly when the    *)
(* hash, the (zero-padded) key and the message are equal.                  *)
(***************************************************************************)
EXTENDS Integers, Sequences, FiniteSets, TLC

(***************************************************************************)
(* Bounds of the model.                                                    *)
(***************************************************************************)
\* longest suite_id / ikm / info byte string the caller holds
MaxLen == 1
\* longest plaintext buffer / associated data handed to the AEAD
MaxBuf == 2

Strs(alphabet, n) == UNION { [1..k -> alphabet] : k \in 0..n }

(***************************************************************************)
(* kdf.rs: constants and the KDF registry                                  *)
(***************************************************************************)
\* b"HPKE-v1"
VERSION_LABEL == <<72, 80, 75, 69, 45, 118, 49>>

MAX_DIGEST_SIZE == 64

U16_MAX == 65535

\* b"eae_prk" and b"shared_secret", the labels extract_and_expand uses
EAE_PRK_LABEL == <<101, 97, 101, 95, 112, 114, 107>>

SHARED_SECRET_LABEL == <<115, 104, 97, 114, 101, 100, 95, 115, 101, 99, 114, 101, 116>>

Kdfs == {"HkdfSha256", "HkdfSha384", "HkdfSha512"}

KDF_ID_AllOne(k) == 1

KDF_ID(k) ==
    CASE k = "HkdfSha256" -> 1
      [] k = "HkdfSha384" -> 2
      [] k = "HkdfSha512" -> 3

HashImpl(k) ==
    CASE k = "HkdfSha256" -> "Sha256"
      [] k = "HkdfSha384" -> "Sha384"
      [] k = "HkdfSha512" -> "Sha512"

\* <HashImpl as FixedOutput>::OutputSize, in bytes (Nh)
OutputSize(h) ==
    CASE h = "Sha256" -> 32
      [] h = "Sha384" -> 48
      [] h = "Sha512" -> 64

(***************************************************************************)
(* The hkdf crate's primitives, as the code calls them.                    *)
(***************************************************************************)
RECURSIVE StripZeros(_)
StripZeros(k) ==
    IF k = <<>> THEN <<>>
    ELSE IF k[Len(k)] = 0 THEN StripZeros(SubSeq(k, 1, Len(k) - 1))
    ELSE k

\* HMAC pads a key shorter than the block with zero bytes, so keys that
\* differ only in trailing zeros are the same key.
HmacKey(k) == StripZeros(k)

Hmac(h, key, msg) == [alg |-> h, key |-> HmacKey(key), msg |-> msg]

\* HkdfExtract::new(Some(salt)): an HMAC keyed with the salt, nothing fed yet
HkdfExtract_new(h, s) == [hash |-> h, salt |-> s, fed |-> <<>>]

\* HkdfExtract::input_ikm: feeds more input keying material
input_ikm(ectx, bytes) == [ectx EXCEPT !.fed = @ \o bytes]

\* HkdfExtract::finalize: the PRK and an Hkdf context keyed with it
finalize(ectx) ==
    LET prk == Hmac(ectx.hash, ectx.salt, ectx.fed)
    IN  [prk |-> prk, hkdf_ctx |-> [hash |-> ectx.hash, prk |-> prk]]

RECURSIVE Concat(_)
Concat(parts) ==
    IF parts = <<>> THEN <<>> ELSE Head(parts) \o Concat(Tail(parts))

NoOkm == [none |-> TRUE]

\* a caller's output buffer of n bytes that nothing was derived into yet
FreshBuf(n) == [len |-> n, written |-> 0, okm |-> NoOkm]

\* Hkdf::expand_multi_info: refuses more than 255 blocks before writing;
\* otherwise fills okm block by block, every block an HMAC under the PRK of
\* the previous block, the info components in order and the block number.
expand_multi_info(ctx, info_components, okm) ==
    LET Nh      == OutputSize(ctx.hash)
        probe   == [prk |-> ctx.prk, info |-> Concat(info_components), len |-> okm.len]
        nblocks == (okm.len + Nh - 1) \div Nh
        lastlen == IF nblocks = 0 THEN 0 ELSE okm.len - (nblocks - 1) * Nh
    IN  IF okm.len > Nh * 255
        THEN [status |-> "InvalidLength", out |-> okm, call |-> probe]
        ELSE [status |-> "Ok",
              out    |-> [len     |-> okm.len,
                          written |-> IF nblocks = 0 THEN 0
                                      ELSE (nblocks - 1) * Nh + lastlen,
                          okm     |-> [prk  |-> ctx.prk,
                                       info |-> Concat(info_components)]],
              call   |-> probe]

(***************************************************************************)
(* kdf.rs: labeled_extract, labeled_expand, extract_and_expand             *)
(***************************************************************************)
\* usize -> u16 cast
AsU16(n) == n % 65536

\* BigEndian::write_u16
write_u16(n) == <<(n \div 256) % 256, n % 256>>

NoCall == [none |-> TRUE]

labeled_extract_NoLabel(k, s, sid, label, ikmBytes) ==
    LET c0 == HkdfExtract_new(HashImpl(k), s)
        c1 == input_ikm(c0, VERSION_LABEL)
        c2 == input_ikm(c1, sid)
        c3 == input_ikm(c2, ikmBytes)
        r  == finalize(c3)
    IN  [prk |-> r.prk, hkdf_ctx |-> r.hkdf_ctx,
         extract_call |-> [salt |-> c3.salt, ikm |-> c3.fed]]

labeled_extract_Swapped(k, s, sid, label, ikmBytes) ==
    LET c0 == HkdfExtract_new(HashImpl(k), s)
        c1 == input_ikm(c0, VERSION_LABEL)
        c2 == input_ikm(c1, label)
        c3 == input_ikm(c2, sid)
        c4 == input_ikm(c3, ikmBytes)
        r  == finalize(c4)
    IN  [prk |-> r.prk, hkdf_ctx |-> r.hkdf_ctx,
         extract_call |-> [salt |-> c4.salt, ikm |-> c4.fed]]

labeled_extract(k, s, sid, label, ikmBytes) ==
    LET c0 == HkdfExtract_new(HashImpl(k), s)
        c1 == input_ikm(c0, VERSION_LABEL)
        c2 == input_ikm(c1, sid)
        c3 == input_ikm(c2, label)
        c4 == input_ikm(c3, ikmBytes)
        r  == finalize(c4)
    IN  [prk |-> r.prk, hkdf_ctx |-> r.hkdf_ctx,
         extract_call |-> [salt |-> c4.salt, ikm |-> c4.fed]]

labeled_expand_LenLast(ctx, sid, label, infoBytes, o) ==
    IF ~(o.len <= U16_MAX)
    THEN [status |-> "Panic", hkdf_ctx |-> ctx, out |-> o, expand_call |-> NoCall]
    ELSE LET len_buf == write_u16(AsU16(o.len))
             r == expand_multi_info(ctx, <<VERSION_LABEL, sid, label, infoBytes, len_buf>>, o)
         IN  [status |-> r.status, hkdf_ctx |-> ctx, out |-> r.out, expand_call |-> r.call]

labeled_expand_NoAssert(ctx, sid, label, infoBytes, o) ==
    LET len_buf == write_u16(AsU16(o.len))
        r == expand_multi_info(ctx, <<len_buf, VERSION_LABEL, sid, label, infoBytes>>, o)
    IN  [status |-> r.status, hkdf_ctx |-> ctx, out |-> r.out, expand_call |-> r.call]

labeled_expand_AssertPrimitiveBound(ctx, sid, label, infoBytes, o) ==
    IF ~(o.len <= 255 * OutputSize(ctx.hash))
    THEN [status |-> "Panic", hkdf_ctx |-> ctx, out |-> o, expand_call |-> NoCall]
    ELSE LET len_buf == write_u16(AsU16(o.len))
             r == expand_multi_info(ctx, <<len_buf, VERSION_LABEL, sid, label, infoBytes>>, o)
         IN  [status |-> r.status, hkdf_ctx |-> ctx, out |-> r.out, expand_call |-> r.call]

\* &self is a shared reference: the context comes back as it went in
labeled_expand(ctx, sid, label, infoBytes, o) ==
    IF ~(o.len <= U16_MAX)
    THEN [status |-> "Panic", hkdf_ctx |-> ctx, out |-> o, expand_call |-> NoCall]
    ELSE LET len_buf == write_u16(AsU16(o.len))
             r == expand_multi_info(ctx, <<len_buf, VERSION_LABEL, sid, label, infoBytes>>, o)
         IN  [status |-> r.status, hkdf_ctx |-> ctx, out |-> r.out, expand_call |-> r.call]

extract_and_expand_OtherSuite(k, ikmBytes, sid, infoBytes, o) ==
    LET e == labeled_extract(k, <<>>, sid, EAE_PRK_LABEL, ikmBytes)
        x == labeled_expand(e.hkdf_ctx, <<>>, SHARED_SECRET_LABEL, infoBytes, o)
    IN  [status |-> x.status, out |-> x.out,
         extract_call |-> e.extract_call, expand_call |-> x.expand_call]

extract_and_expand(k, ikmBytes, sid, infoBytes, o) ==
    LET e == labeled_extract(k, <<>>, sid, EAE_PRK_LABEL, ikmBytes)
        x == labeled_expand(e.hkdf_ctx, sid, SHARED_SECRET_LABEL, infoBytes, o)
    IN  [status |-> x.status, out |-> x.out,
         extract_call |-> e.extract_call, expand_call |-> x.expand_call]

(***************************************************************************)
(* aead/export_only.rs: EmptyAeadImpl and ExportOnlyAead                   *)
(***************************************************************************)
\* size of the caller's sequence counter, a u64
SeqSize == 8

NonceSize_Small == SeqSize \div 2

\* typenum::U128, U0, U0, U0
NonceSize == 128

TagSize == 0

CiphertextOverhead == 0

KeySize == 0

\* ExportOnlyAead::AEAD_ID = 0xFFFF
AEAD_ID == 65535

NoTag == [none |-> TRUE]

\* BaseNewAead::new: the key is ignored
EmptyAeadImpl_new(key) == "EmptyAeadImpl"

encrypt_in_place_detached_NoOp(self, nonce, ad, buf) ==
    [status |-> "Ok", msg |-> "", buffer |-> buf, tag |-> <<>>]

encrypt_in_place_detached(self, nonce, ad, buf) ==
    [status |-> "Panic",
     msg    |-> "Cannot encrypt with an empty encryption context!",
     buffer |-> buf,
     tag    |-> NoTag]

decrypt_in_place_detached(self, nonce, ad, buf, tag) ==
    [status |-> "Panic",
     msg    |-> "Cannot decrypt with an empty encryption context!",
     buffer |-> buf,
     tag    |-> NoTag]

\* The generic caller's counter-to-nonce conversion: the counter is written
\* big-endian into the last SeqSize bytes of a nonce-sized buffer, which is
\* XORed into the base nonce.  nonce_size - seq_size is an unsigned
\* subtraction.
RECURSIVE XorByte(_, _)
XorByte(a, b) ==
    IF a = 0 /\ b = 0 THEN 0
    ELSE ((a + b) % 2) + 2 * XorByte(a \div 2, b \div 2)

\* byte k (0 = least significant) of the counter
RECURSIVE SeqByte(_, _)
SeqByte(seq, k) == IF k = 0 THEN seq % 256 ELSE SeqByte(seq \div 256, k - 1)

mix_nonce(base_nonce, seq) ==
    LET nonce_size == Len(base_nonce)
        seq_size   == SeqSize
        off        == nonce_size - seq_size
    IN  IF off < 0
        THEN [status |-> "Underflow", nonce |-> <<>>]
        ELSE [status |-> "Ok",
              nonce  |-> [i \in 1..nonce_size |->
                            IF i <= off THEN base_nonce[i]
                            ELSE XorByte(base_nonce[i],
                                         SeqByte(seq, nonce_size - i))]]

(***************************************************************************)
(* State                                                                   *)
(***************************************************************************)
VARIABLES
    kdf,           \* the Kdf type parameter the caller instantiated
    salt,          \* the caller's inputs, fixed for a run
    suite_id,
    ikm,
    info,
    hkdf_ctx,      \* the expand context the last labeled_extract returned
    call,          \* the last call: operation, label, output length
    extract_call,  \* what the last call handed to HKDF-Extract
    expand_call,   \* what the last call handed to HKDF-Expand
    ret,           \* the last call's outcome
    out,           \* the output buffer after the last call
    aead_impl,     \* the export-only AEAD object, once constructed
    aad,           \* the caller's associated data
    buffer0,       \* the caller's in-place buffer as handed in
    buffer,        \* the in-place buffer after the last call
    aead_call,     \* the last AEAD call
    aead_ret       \* its outcome

kdf_vars == <<kdf, salt, suite_id, ikm, info, hkdf_ctx,
              call, extract_call, expand_call, ret, out>>

aead_vars == <<aead_impl, aad, buffer0, buffer, aead_call, aead_ret>>

vars == <<kdf_vars, aead_vars>>

NoCtx == [none |-> TRUE]

NoPrk == [none |-> TRUE]

NoBuf == [none |-> TRUE]

(***************************************************************************)
(* Inputs                                                                  *)
(***************************************************************************)
Salts == {<<>>, <<0>>, <<1>>}

SuiteIds == Strs({75}, MaxLen)

Ikms == Strs({121}, MaxLen)

Infos == Strs({105}, MaxLen)

\* labels of extract steps: "", "secret", "eae_prk", "dkp_prk"
ExtractLabels ==
    {<<>>, <<115, 101, 99, 114, 101, 116>>, EAE_PRK_LABEL,
     <<100, 107, 112, 95, 112, 114, 107>>}

\* labels of expand steps: "key", "exp", "shared_secret"
ExpandLabels == {<<107, 101, 121>>, <<101, 120, 112>>, SHARED_SECRET_LABEL}

\* output lengths around each limit: empty, one block, the primitive's
\* 255 blocks and one byte more, the 16-bit limit and beyond it
OutLens(k) ==
    LET Nh == OutputSize(HashImpl(k))
    IN  {0, Nh, 255 * Nh, 255 * Nh + 1, 65535, 65536}

Buffers == Strs({0, 1}, MaxBuf)

Aads == Strs({7}, MaxBuf)

Nonces(n) == {[i \in 1..n |-> 0], [i \in 1..n |-> 255], [i \in 1..n |-> i % 256]}

Keys == [1..KeySize -> 0..255]

Tags == [1..TagSize -> 0..255]

(***************************************************************************)
(* KDF: initial state and calls                                            *)
(***************************************************************************)
KdfIdle ==
    /\ hkdf_ctx = NoCtx
    /\ call = [op |-> "none", label |-> <<>>, len |-> 0]
    /\ extract_call = NoCall
    /\ expand_call = NoCall
    /\ ret = [status |-> "None", prk |-> NoPrk]
    /\ out = NoBuf

AeadIdle ==
    /\ aead_impl = "None"
    /\ buffer = buffer0
    /\ aead_call = [op |-> "none", nonce |-> <<>>]
    /\ aead_ret = [status |-> "None", msg |-> ""]

Init ==
    /\ kdf \in Kdfs
    /\ salt \in Salts
    /\ suite_id \in SuiteIds
    /\ ikm \in Ikms
    /\ info \in Infos
    /\ KdfIdle
    /\ aad = <<>>
    /\ buffer0 = <<>>
    /\ AeadIdle

Running == ret.status # "Panic"

LabeledExtract(label) ==
    /\ Running
    /\ LET r == labeled_extract(kdf, salt, suite_id, label, ikm)
       IN  /\ hkdf_ctx' = r.hkdf_ctx
           /\ ret' = [status |-> "Ok", prk |-> r.prk]
           /\ extract_call' = r.extract_call
    /\ call' = [op |-> "labeled_extract", label |-> label, len |-> 0]
    /\ expand_call' = NoCall
    /\ out' = NoBuf
    /\ UNCHANGED <<kdf, salt, suite_id, ikm, info, aead_vars>>

LabeledExpand(label, n) ==
    /\ Running
    /\ hkdf_ctx # NoCtx
    /\ LET r == labeled_expand(hkdf_ctx, suite_id, label, info, FreshBuf(n))
       IN  /\ hkdf_ctx' = r.hkdf_ctx
           /\ ret' = [status |-> r.status, prk |-> NoPrk]
           /\ expand_call' = r.expand_call
           /\ out' = r.out
    /\ call' = [op |-> "labeled_expand", label |-> label, len |-> n]
    /\ extract_call' = NoCall
    /\ UNCHANGED <<kdf, salt, suite_id, ikm, info, aead_vars>>

ExtractAndExpand(n) ==
    /\ Running
    /\ LET r == extract_and_expand(kdf, ikm, suite_id, info, FreshBuf(n))
       IN  /\ ret' = [status |-> r.status, prk |-> NoPrk]
           /\ extract_call' = r.extract_call
           /\ expand_call' = r.expand_call
           /\ out' = r.out
    /\ call' = [op |-> "extract_and_expand", label |-> <<>>, len |-> n]
    /\ UNCHANGED <<kdf, salt, suite_id, ikm, info, hkdf_ctx, aead_vars>>

Next ==
    \/ \E label \in ExtractLabels : LabeledExtract(label)
    \/ \E label \in ExpandLabels, n \in OutLens(kdf) : LabeledExpand(label, n)
    \/ \E n \in OutLens(kdf) : ExtractAndExpand(n)

Spec == Init /\ [][Next]_vars

(***************************************************************************)
(* Export-only AEAD: initial state and calls                               *)
(***************************************************************************)
AeadInit ==
    /\ kdf = "HkdfSha256"
    /\ salt = <<>>
    /\ suite_id = <<>>
    /\ ikm = <<>>
    /\ info = <<>>
    /\ KdfIdle
    /\ aad \in Aads
    /\ buffer0 \in Buffers
    /\ AeadIdle

AeadRunning == aead_ret.status \notin {"Panic", "Underflow"}

New(key) ==
    /\ AeadRunning
    /\ aead_impl' = EmptyAeadImpl_new(key)
    /\ aead_call' = [op |-> "new", nonce |-> <<>>]
    /\ aead_ret' = [status |-> "Ok", msg |-> ""]
    /\ buffer' = buffer0
    /\ UNCHANGED <<kdf_vars, aad, buffer0>>

Encrypt(nonce) ==
    /\ AeadRunning
    /\ aead_impl # "None"
    /\ LET r == encrypt_in_place_detached(aead_impl, nonce, aad, buffer0)
       IN  /\ aead_ret' = [status |-> r.status, msg |-> r.msg]
           /\ buffer' = r.buffer
    /\ aead_call' = [op |-> "encrypt_in_place_detached", nonce |-> nonce]
    /\ UNCHANGED <<kdf_vars, aead_impl, aad, buffer0>>

Decrypt(nonce, tag) ==
    /\ AeadRunning
    /\ aead_impl # "None"
    /\ LET r == decrypt_in_place_detached(aead_impl, nonce, aad, buffer0, tag)
       IN  /\ aead_ret' = [status |-> r.status, msg |-> r.msg]
           /\ buffer' = r.buffer
    /\ aead_call' = [op |-> "decrypt_in_place_detached", nonce |-> nonce]
    /\ UNCHANGED <<kdf_vars, aead_impl, aad, buffer0>>

\* seal() of a generic caller: counter-to-nonce conversion, then encryption.
\* The counter advances only after a successful encryption, so it is 0 here.
Seal(base_nonce) ==
    /\ AeadRunning
    /\ aead_impl # "None"
    /\ LET m == mix_nonce(base_nonce, 0)
           r == encrypt_in_place_detached(aead_impl, m.nonce, aad, buffer0)
       IN  IF m.status = "Underflow"
           THEN /\ aead_ret' = [status |-> "Underflow", msg |-> ""]
                /\ buffer' = buffer0
                /\ aead_call' = [op |-> "seal", nonce |-> <<>>]
           ELSE /\ aead_ret' = [status |-> r.status, msg |-> r.msg]
                /\ buffer' = r.buffer
                /\ aead_call' = [op |-> "seal", nonce |-> m.nonce]
    /\ UNCHANGED <<kdf_vars, aead_impl, aad, buffer0>>

Open(base_nonce, tag) ==
    /\ AeadRunning
    /\ aead_impl # "None"
    /\ LET m == mix_nonce(base_nonce, 0)
           r == decrypt_in_place_detached(aead_impl, m.nonce, aad, buffer0, tag)
       IN  IF m.status = "Underflow"
           THEN /\ aead_ret' = [status |-> "Underflow", msg |-> ""]
                /\ buffer' = buffer0
                /\ aead_call' = [op |-> "open", nonce |-> <<>>]
           ELSE /\ aead_ret' = [status |-> r.status, msg |-> r.msg]
                /\ buffer' = r.buffer
                /\ aead_call' = [op |-> "open", nonce |-> m.nonce]
    /\ UNCHANGED <<kdf_vars, aead_impl, aad, buffer0>>

AeadNext ==
    \/ \E key \in Keys : New(key)
    \/ \E nonce \in Nonces(NonceSize) : Encrypt(nonce)
    \/ \E nonce \in Nonces(NonceSize), tag \in Tags : Decrypt(nonce, tag)
    \/ \E base \in Nonces(NonceSize) : Seal(base)
    \/ \E base \in Nonces(NonceSize), tag \in Tags : Open(base, tag)

SpecAead == AeadInit /\ [][AeadNext]_vars

(***************************************************************************)
(* Properties                                                              *)
(***************************************************************************)

\* C1: for an output buffer of length L <= 65535, labeled_expand calls
\* HKDF-Expand under the context's PRK with output length L and with the info
\* string I2OSP(L, 2) || "HPKE-v1" || suite_id || label || info, nothing
\* added, dropped or reordered; the encoded length is the buffer's length, so
\* an expansion that differs only in L uses a different info string.
C1_LabeledInfoLayout ==
    (call.op = "labeled_expand" /\ call.len <= 65535) =>
        /\ expand_call # NoCall
        /\ expand_call.len = call.len
        /\ expand_call.prk = hkdf_ctx.prk
        /\ expand_call.info =
              <<call.len \div 256, call.len % 256>>
              \o <<72, 80, 75, 69, 45, 118, 49>>
              \o suite_id \o call.label \o info
        /\ 256 * expand_call.info[1] + expand_call.info[2] = call.len
        /\ \A n \in OutLens(kdf) :
              (n <= 65535 /\ n # call.len) =>
                  labeled_expand(hkdf_ctx, suite_id, call.label, info,
                                 FreshBuf(n)).expand_call.info # expand_call.info

C1_Witness ==
    /\ call.op = "labeled_expand"
    /\ call.len = 65535
    /\ suite_id # <<>>
    /\ info # <<>>
    /\ expand_call # NoCall
    /\ expand_call.info[1] = 255
    /\ Len(expand_call.info) = 2 + 7 + Len(suite_id) + Len(call.label) + Len(info)

\* C2: labeled_extract runs HKDF-Extract with the given salt and the input
\* keying material "HPKE-v1" || suite_id || label || ikm, returns that PRK
\* and an expand context keyed by the same PRK, and never fails.
C2_LabeledIkmLayout ==
    call.op = "labeled_extract" =>
        LET labeled_ikm == <<72, 80, 75, 69, 45, 118, 49>>
                           \o suite_id \o call.label \o ikm
        IN  /\ ret.status = "Ok"
            /\ extract_call = [salt |-> salt, ikm |-> labeled_ikm]
            /\ ret.prk = Hmac(HashImpl(kdf), salt, labeled_ikm)
            /\ hkdf_ctx = [hash |-> HashImpl(kdf), prk |-> ret.prk]

C2_Witness ==
    /\ call.op = "labeled_extract"
    /\ call.label = <<101, 97, 101, 95, 112, 114, 107>>
    /\ salt = <<1>>
    /\ suite_id # <<>>
    /\ ikm # <<>>
    /\ ret.status = "Ok"
    /\ Len(extract_call.ikm) = 7 + Len(suite_id) + 7 + Len(ikm)

\* C3: extract_and_expand has the outcome of labeled_extract with empty salt
\* and label "eae_prk" followed by labeled_expand on the resulting context
\* with the same suite_id, label "shared_secret", the given info and buffer.
C3_ExtractAndExpandIsComposition ==
    call.op = "extract_and_expand" =>
        LET e == labeled_extract(kdf, <<>>, suite_id,
                                 <<101, 97, 101, 95, 112, 114, 107>>, ikm)
            x == labeled_expand(e.hkdf_ctx, suite_id,
                                <<115, 104, 97, 114, 101, 100, 95,
                                  115, 101, 99, 114, 101, 116>>,
                                info, FreshBuf(call.len))
        IN  /\ ret.status = x.status
            /\ out = x.out
            /\ extract_call = e.extract_call
            /\ expand_call = x.expand_call

C3_Witness ==
    /\ call.op = "extract_and_expand"
    /\ ret.status = "Ok"
    /\ suite_id # <<>>
    /\ ikm # <<>>
    /\ info # <<>>
    /\ out.written = OutputSize(HashImpl(kdf))
    /\ extract_call.salt = <<>>

\* C4: an output buffer longer than 65535 bytes ends labeled_expand (called
\* directly or through extract_and_expand) in the fatal failure: no success,
\* no recoverable error, no call of HKDF-Expand (so no truncated length in
\* an info string and no length check of the primitive), buffer untouched.
C4_LengthOver16BitsIsFatal ==
    (call.op \in {"labeled_expand", "extract_and_expand"} /\ call.len > 65535) =>
        /\ ret.status = "Panic"
        /\ expand_call = NoCall
        /\ out = FreshBuf(call.len)

C4_Witness ==
    /\ call.op = "labeled_expand"
    /\ call.len = 65536
    /\ ret.status = "Panic"
    /\ out.written = 0

\* C5: with hash output size Nh, labeled_expand on a buffer of n bytes
\* succeeds and fills exactly n bytes when n <= 255*Nh, and returns the
\* recoverable invalid-length error, leaving the buffer as it was, when
\* 255*Nh < n <= 65535; 255*Nh <= 16320 < 65535 for every registered hash.
C5_ExpandLengthOutcome ==
    call.op = "labeled_expand" =>
        LET Nh == CASE kdf = "HkdfSha256" -> 32
                    [] kdf = "HkdfSha384" -> 48
                    [] kdf = "HkdfSha512" -> 64
            n  == call.len
        IN  /\ hkdf_ctx.hash = HashImpl(kdf)
            /\ Nh <= MAX_DIGEST_SIZE
            /\ 255 * Nh <= 16320
            /\ n <= 255 * Nh =>
                  /\ ret.status = "Ok"
                  /\ out.len = n
                  /\ out.written = n
                  /\ out.okm = [prk |-> hkdf_ctx.prk, info |-> expand_call.info]
            /\ (255 * Nh < n /\ n <= 65535) =>
                  /\ ret.status = "InvalidLength"
                  /\ out = FreshBuf(n)

C5_Witness ==
    /\ call.op = "labeled_expand"
    /\ kdf = "HkdfSha512"
    /\ call.len = 16321
    /\ ret.status = "InvalidLength"

\* C6: every encrypt_in_place_detached or decrypt_in_place_detached call on
\* the export-only AEAD ends in the fatal failure naming the empty context;
\* none returns Ok or Err and none modifies the buffer.
C6_ExportOnlyAlwaysPanics ==
    aead_call.op \in {"encrypt_in_place_detached", "decrypt_in_place_detached"} =>
        /\ aead_ret.status = "Panic"
        /\ aead_ret.msg =
              IF aead_call.op = "encrypt_in_place_detached"
              THEN "Cannot encrypt with an empty encryption context!"
              ELSE "Cannot decrypt with an empty encryption context!"
        /\ buffer = buffer0

C6_Witness ==
    /\ aead_call.op = "encrypt_in_place_detached"
    /\ Len(buffer0) = 2
    /\ aad # <<>>
    /\ Len(aead_call.nonce) = 128
    /\ aead_ret.status = "Panic"

\* C7: the export-only AEAD declares key size 0, tag size 0, ciphertext
\* overhead 0 and a nonce size of 128 bytes, larger than the 8-byte sequence
\* counter, so a generic caller's nonce size minus counter width never
\* underflows and seal/open reach the fatal failure; construction succeeds
\* for any key and always yields the same inert object.
C7_ExportOnlySizes ==
    /\ KeySize = 0
    /\ TagSize = 0
    /\ CiphertextOverhead = 0
    /\ NonceSize = 128
    /\ NonceSize > SeqSize
    /\ aead_ret.status # "Underflow"
    /\ aead_impl \in {"None", "EmptyAeadImpl"}
    /\ aead_call.op = "new" => (aead_ret.status = "Ok" /\ aead_impl = "EmptyAeadImpl")
    /\ aead_call.op \in {"seal", "open"} =>
          (aead_ret.status = "Panic" /\ Len(aead_call.nonce) = NonceSize)

C7_Witness ==
    /\ aead_call.op = "seal"
    /\ aead_impl = "EmptyAeadImpl"
    /\ Len(aead_call.nonce) = 128
    /\ aead_ret.status = "Panic"

\* C8: HKDF-SHA256 is bound to SHA-256 and identifier 0x0001, HKDF-SHA384 to
\* SHA-384 and 0x0002, HKDF-SHA512 to SHA-512 and 0x0003, the export-only
\* AEAD to 0xFFFF; the KDF identifiers are pairwise distinct and fit in two
\* bytes, and they are the same in every state, whatever was called.
C8_RegistryFixed ==
    /\ KDF_ID("HkdfSha256") = 1 /\ HashImpl("HkdfSha256") = "Sha256"
    /\ KDF_ID("HkdfSha384") = 2 /\ HashImpl("HkdfSha384") = "Sha384"
    /\ KDF_ID("HkdfSha512") = 3 /\ HashImpl("HkdfSha512") = "Sha512"
    /\ AEAD_ID = 65535
    /\ \A a, b \in Kdfs : a # b => KDF_ID(a) # KDF_ID(b)
    /\ \A a \in Kdfs : KDF_ID(a) \in 0..65535
    /\ hkdf_ctx # NoCtx => hkdf_ctx.hash = HashImpl(kdf)

C8_Witness ==
    /\ kdf = "HkdfSha384"
    /\ call.op = "extract_and_expand"
    /\ hkdf_ctx # NoCtx
    /\ hkdf_ctx.hash = "Sha384"
    /\ KDF_ID(kdf) = 2

\* C10: with salt, suite_id and ikm fixed, the byte string labeled_extract
\* hands to HKDF-Extract differs from the one any other label gives, and so
\* does the PRK (HMAC values being equal only on equal inputs).
C10_DistinctLabelsDistinctPrk ==
    call.op = "labeled_extract" =>
        \A other \in ExtractLabels \cup ExpandLabels \cup Strs({75, 121}, 2) :
            other # call.label =>
                LET r == labeled_extract(kdf, salt, suite_id, other, ikm)
                IN  /\ r.extract_call.ikm # extract_call.ikm
                    /\ r.extract_call.salt = extract_call.salt
                    /\ r.prk # ret.prk

C10_Witness ==
    /\ call.op = "labeled_extract"
    /\ call.label = <<100, 107, 112, 95, 112, 114, 107>>
    /\ suite_id # <<>>
    /\ ikm # <<>>
    /\ ret.prk # labeled_extract(kdf, salt, suite_id,
                                 <<101, 97, 101, 95, 112, 114, 107>>, ikm).prk

=============================================================================
